---------------------------- MODULE Spec2Model ----------------------------
(* Model of the two waste-collection sources                               *)
(*   source/woollahra_nsw_gov_au.py  (Source.fetch, _make_request_with_retry,*)
(*                                    _parse_date, ICON_MAP)               *)
(*   source/lbbd_gov_uk.py           (Source.fetch, COLLECTION_MAP)        *)
(* Text is a sequence of one-character strings, so that lower(), strip()   *)
(* and the substring test are computed and not assumed.  The upstream      *)
(* servers, the network and the clock are the environment: every response  *)
(* and the current day are inputs of the actions.                          *)
EXTENDS Integers, Sequences, FiniteSets, TLC

VARIABLES
    self,         \* the Source instance: [cls, address, uprn]
    pc,           \* position of the running call
    stage,        \* which call of the retry helper is running / none
    today,        \* the clock's day when the response was parsed
    main_page_response, \* woollahra fetch: the warm-up response, until the
                  \* first request of the address search (it is not read later)
    attempt,      \* _make_request_with_retry: loop variable
    max_retries,  \* _make_request_with_retry: parameter
    resps,        \* responses the running helper call has received so far
    r,            \* last response object returned to fetch()
    location_id,  \* woollahra fetch: local location_id
    data,         \* lbbd fetch: rubbish_data["results"]
    idx,          \* lbbd fetch: index of the next result of the outer loop
    entries,      \* fetch: local list of Collection records
    result,       \* value returned by the call
    error,        \* exception raised by the call
    log,          \* session.get / requests.get / time.sleep calls of this call
    calls,        \* number of fetch() calls started on the instance
    recording,    \* whether the responses are taped for a replay
    script,       \* responses received by the running call (when recording)
    tape,         \* responses received by the previous call
    prev          \* outcome of the previous call

vars == <<self, pc, stage, today, main_page_response, attempt, max_retries, resps, r, location_id,
          data, idx, entries, result, error, log, calls, recording, script,
          tape, prev>>

-----------------------------------------------------------------------------
(* Bounds of the model.                                                    *)

MaxN == 3
MaxBlocks == 2
MaxResults == 2

(* Program constants.                                                      *)

DefaultMaxRetries == 3
WarmupSleep == 2
PolitenessSleep == 1

-----------------------------------------------------------------------------
(* Text.                                                                   *)

UpperCase == <<"A","B","C","D","E","F","G","H","I","J","K","L","M",
               "N","O","P","Q","R","S","T","U","V","W","X","Y","Z">>
LowerCase == <<"a","b","c","d","e","f","g","h","i","j","k","l","m",
               "n","o","p","q","r","s","t","u","v","w","x","y","z">>

\* the lower-case letter of each upper-case letter
LowerOf == [c \in {UpperCase[i] : i \in 1..26} |->
               LowerCase[CHOOSE i \in 1..26 : UpperCase[i] = c]]

LowerChar(c) == IF c \in DOMAIN LowerOf THEN LowerOf[c] ELSE c

\* str.lower()
Lower(s) == [i \in 1..Len(s) |-> LowerChar(s[i])]

\* sub in s
Contains(s, sub) ==
    \E i \in 0..(Len(s) - Len(sub)) : SubSeq(s, i + 1, i + Len(sub)) = sub

IsSpace(c) == c \in {" ", "\t", "\n"}

\* str.strip()
Strip(s) ==
    LET keep == {i \in 1..Len(s) : ~IsSpace(s[i])}
    IN  IF keep = {} THEN <<>>
        ELSE LET lo == CHOOSE i \in keep : \A j \in keep : i <= j
                 hi == CHOOSE i \in keep : \A j \in keep : j <= i
             IN  SubSeq(s, lo, hi)

RECURSIVE Requote(_)
\* requests.utils.requote_uri on the characters the model uses: a space is
\* percent-encoded, unreserved characters are kept
Requote(s) ==
    IF s = <<>> THEN <<>>
    ELSE (IF s[1] = " " THEN <<"%", "2", "0">> ELSE <<s[1]>>) \o Requote(Tail(s))

-----------------------------------------------------------------------------
(* Calendar dates: datetime.date as [y, m, d].                             *)

IsLeap(y) == (y % 4 = 0 /\ y % 100 # 0) \/ y % 400 = 0

DaysIn(m, y) ==
    IF m = 2 THEN (IF IsLeap(y) THEN 29 ELSE 28)
    ELSE IF m \in {4, 6, 9, 11} THEN 30 ELSE 31

ValidDate(y, m, d) ==
    /\ y >= 1 /\ y <= 9999
    /\ m >= 1 /\ m <= 12
    /\ d >= 1 /\ d <= DaysIn(m, y)

NoDate == [y |-> 0, m |-> 0, d |-> 0]

-----------------------------------------------------------------------------
(* Woollahra: static tables.                                               *)

CLEANUP_ICON == "mdi:delete-sweep"

GeneralWaste == <<"G","e","n","e","r","a","l"," ","W","a","s","t","e">>
GreenWaste == <<"G","r","e","e","n"," ","W","a","s","t","e">>
Recycling == <<"R","e","c","y","c","l","i","n","g">>
SpringCleanUp == <<"S","p","r","i","n","g"," ","C","l","e","a","n","-","U","p">>
SummerCleanUp == <<"S","u","m","m","e","r"," ","C","l","e","a","n","-","U","p">>
WinterCleanUp == <<"W","i","n","t","e","r"," ","C","l","e","a","n","-","U","p">>

ICON_MAP ==
    [k \in {GeneralWaste, GreenWaste, Recycling,
            SpringCleanUp, SummerCleanUp, WinterCleanUp} |->
        CASE k = GeneralWaste -> "mdi:trash-can"
          [] k = GreenWaste -> "mdi:leaf"
          [] k = Recycling -> "mdi:recycle"
          [] OTHER -> CLEANUP_ICON]

\* ICON_MAP.get(waste_type, "mdi:trash-can")
IconFor(waste_type) ==
    IF waste_type \in DOMAIN ICON_MAP THEN ICON_MAP[waste_type] ELSE "mdi:trash-can"

kwSpring == <<"s","p","r","i","n","g">>
kwSummer == <<"s","u","m","m","e","r">>
kwWinter == <<"w","i","n","t","e","r">>
kwClean == <<"c","l","e","a","n">>

\* faulty variant: the seasons are tested in the order winter, summer, spring
NormalizeWinterFirst(waste_type) ==
    LET low == Lower(waste_type)
    IN  IF Contains(low, kwWinter) /\ Contains(low, kwClean) THEN WinterCleanUp
        ELSE IF Contains(low, kwSummer) /\ Contains(low, kwClean) THEN SummerCleanUp
        ELSE IF Contains(low, kwSpring) /\ Contains(low, kwClean) THEN SpringCleanUp
        ELSE waste_type

\* "Normalize seasonal cleanup names": the if / elif / elif chain
Normalize(waste_type) ==
    LET low == Lower(waste_type)
    IN  IF Contains(low, kwSpring) /\ Contains(low, kwClean) THEN SpringCleanUp
        ELSE IF Contains(low, kwSummer) /\ Contains(low, kwClean) THEN SummerCleanUp
        ELSE IF Contains(low, kwWinter) /\ Contains(low, kwClean) THEN WinterCleanUp
        ELSE waste_type

-----------------------------------------------------------------------------
(* Woollahra: _parse_date.  A date text is the sequence of lexemes the     *)
(* parser sees: [k |-> "num", v |-> n], [k |-> "month", v |-> 1..12] or    *)
(* [k |-> "word", v |-> 0].  With fuzzy=True words are skipped.  With      *)
(* dayfirst=True the first of two ambiguous numbers is the day.  Fields    *)
(* the text does not give are taken from the default, which is the current *)
(* day because the call passes no default.  ParserError (which also wraps  *)
(* the ValueError of an impossible date) and OverflowError give None.      *)

Num(n) == [k |-> "num", v |-> n]
Month(n) == [k |-> "month", v |-> n]
Word == [k |-> "word", v |-> 0]

IsNum(tok) == tok.k = "num"
IsMonth(tok) == tok.k = "month"

\* the (year, month, day) that dateutil resolves, before validation
ResolveYMD(text, now) ==
    LET nums == SelectSeq(text, IsNum)
        months == SelectSeq(text, IsMonth)
    IN  IF months = <<>>
        THEN CASE Len(nums) = 1 -> [y |-> now.y, m |-> now.m, d |-> nums[1].v]
               [] Len(nums) = 2 ->
                    IF nums[2].v <= 12
                    THEN [y |-> now.y, m |-> nums[2].v, d |-> nums[1].v]
                    ELSE [y |-> now.y, m |-> nums[1].v, d |-> nums[2].v]
               [] Len(nums) = 3 ->
                    IF nums[2].v <= 12
                    THEN [y |-> nums[3].v, m |-> nums[2].v, d |-> nums[1].v]
                    ELSE [y |-> nums[3].v, m |-> nums[1].v, d |-> nums[2].v]
               [] OTHER -> NoDate
        ELSE CASE Len(nums) = 0 -> [y |-> now.y, m |-> months[1].v, d |-> now.d]
               [] Len(nums) = 1 ->
                    IF nums[1].v <= 31
                    THEN [y |-> now.y, m |-> months[1].v, d |-> nums[1].v]
                    ELSE [y |-> nums[1].v, m |-> months[1].v, d |-> now.d]
               [] Len(nums) = 2 ->
                    [y |-> nums[2].v, m |-> months[1].v, d |-> nums[1].v]
               [] OTHER -> NoDate

\* faulty variant: the exception of an unparseable text is not caught
ParseDateRaises(date_text, now) ==
    LET ymd == ResolveYMD(date_text, now)
    IN  IF ValidDate(ymd.y, ymd.m, ymd.d)
        THEN [ok |-> TRUE, raised |-> FALSE, date |-> ymd]
        ELSE [ok |-> FALSE, raised |-> TRUE, date |-> NoDate]

\* _parse_date: [ok |-> a date was parsed, raised |-> an exception escaped]
ParseDate(date_text, now) ==
    LET ymd == ResolveYMD(date_text, now)
    IN  IF ValidDate(ymd.y, ymd.m, ymd.d)
        THEN [ok |-> TRUE, raised |-> FALSE, date |-> ymd]
        ELSE [ok |-> FALSE, raised |-> FALSE, date |-> NoDate]

Collection(date, t, icon) == [date |-> date, t |-> t, icon |-> icon]

-----------------------------------------------------------------------------
(* Woollahra: the loop over the result blocks.  A node of the HTML         *)
(* fragment is [cls, has_h3, h3, has_next, next]: its class attribute, the *)
(* text of its first h3 if any, the lexemes of its first                   *)
(* div.next-service if any.                                                *)

IsService(node) == node.cls = "waste-services-result"

\* soup.find_all("div", attrs={"class": "waste-services-result"})
FindServices(response_content) == SelectSeq(response_content, IsService)

\* one pass of the loop body: [raised, out] with out the entries appended
ServiceEntry(item, now) ==
    IF ~item.has_h3 THEN [raised |-> FALSE, out |-> <<>>]
    ELSE LET waste_type == Normalize(Strip(item.h3))
         IN  IF ~item.has_next THEN [raised |-> FALSE, out |-> <<>>]
             ELSE LET date == ParseDate(item.next, now)
                  IN  IF date.raised THEN [raised |-> TRUE, out |-> <<>>]
                      ELSE IF date.ok
                      THEN [raised |-> FALSE,
                            out |-> <<Collection(date.date, waste_type,
                                                 IconFor(waste_type))>>]
                      ELSE [raised |-> FALSE, out |-> <<>>]

RECURSIVE ParseServices(_, _, _)
\* for item in services: ... entries.append(...)
ParseServices(services, now, acc) ==
    IF services = <<>> THEN [raised |-> FALSE, out |-> acc]
    ELSE LET e == ServiceEntry(services[1], now)
         IN  IF e.raised THEN [raised |-> TRUE, out |-> acc \o e.out]
             ELSE ParseServices(Tail(services), now, acc \o e.out)

-----------------------------------------------------------------------------
(* Responses, errors and the call log.                                     *)

EmptyBody == [fmt |-> "json", has_items |-> FALSE, Items |-> <<>>,
              success |-> FALSE, content |-> <<>>, results |-> <<>>]

Resp(status, body) == [kind |-> "response", status |-> status, body |-> body]
NetErr == [kind |-> "neterr", status |-> 0, body |-> EmptyBody]
NoResponse == [kind |-> "none", status |-> 0, body |-> EmptyBody]

Err(type, msg, status, att, address) ==
    [type |-> type, msg |-> msg, status |-> status, attempt |-> att,
     address |-> address]
NoError == Err("None", "", 0, 0, <<>>)

Get(ep, arg) == [op |-> "GET", ep |-> ep, arg |-> arg, secs |-> 0]
Sleep(secs) == [op |-> "SLEEP", ep |-> "", arg |-> <<>>, secs |-> secs]

IsGet(e) == e.op = "GET"
IsSleep(e) == e.op = "SLEEP"

\* API_URLS[...].format(...) through requote_uri
SearchUrl(address) == Get("address_search", Requote(address))
CollectionUrl(id) == Get("collection", Requote(id))
WarmupUrl == Get("main_page", <<>>)
DirectUrl == Get("direct", <<>>)

-----------------------------------------------------------------------------
(* Woollahra: _make_request_with_retry, one pass of the loop body.         *)
(* [act, sleep, err]: return r, sleep and continue, or raise.              *)

Pow2(n) == 2 ^ n

Return == [act |-> "return", sleep |-> 0, err |-> NoError]
Retry(secs) == [act |-> "retry", sleep |-> secs, err |-> NoError]
Raise(e) == [act |-> "raise", sleep |-> 0, err |-> e]

\* faulty variant: a constant delay instead of the exponential backoff
HelperStepFlatDelay(resp, att, n) ==
    IF resp.kind = "response"
    THEN IF resp.status = 200 THEN Return
         ELSE IF resp.status = 403 /\ att < n - 1 THEN Retry(1)
         ELSE Raise(Err("Exception", "failed_to_fetch", resp.status, att + 1, <<>>))
    ELSE IF att = n - 1
         THEN Raise(Err("Exception", "network_error", 0, 0, <<>>))
         ELSE Retry(1)

\* faulty variant: every non-200 status is retried while attempts remain
HelperStepRetriesAll(resp, att, n) ==
    IF resp.kind = "response"
    THEN IF resp.status = 200 THEN Return
         ELSE IF att < n - 1 THEN Retry(Pow2(att))
         ELSE Raise(Err("Exception", "failed_to_fetch", resp.status, att + 1, <<>>))
    ELSE IF att = n - 1
         THEN Raise(Err("Exception", "network_error", 0, 0, <<>>))
         ELSE Retry(Pow2(att))

\* faulty variant: a network exception on the last attempt is swallowed
HelperStepSwallowsLast(resp, att, n) ==
    IF resp.kind = "response"
    THEN IF resp.status = 200 THEN Return
         ELSE IF resp.status = 403 /\ att < n - 1 THEN Retry(Pow2(att))
         ELSE Raise(Err("Exception", "failed_to_fetch", resp.status, att + 1, <<>>))
    ELSE Retry(Pow2(att))

\* faulty variant: the response of the last attempt is returned whatever its status
HelperStepReturnsLast(resp, att, n) ==
    IF resp.kind = "response"
    THEN IF resp.status = 200 \/ att = n - 1 THEN Return
         ELSE IF resp.status = 403 THEN Retry(Pow2(att))
         ELSE Raise(Err("Exception", "failed_to_fetch", resp.status, att + 1, <<>>))
    ELSE IF att = n - 1
         THEN Raise(Err("Exception", "network_error", 0, 0, <<>>))
         ELSE Retry(Pow2(att))

HelperStep(resp, att, n) ==
    IF resp.kind = "response"
    THEN IF resp.status = 200 THEN Return
         ELSE IF resp.status = 403 /\ att < n - 1 THEN Retry(Pow2(att))
         ELSE Raise(Err("Exception", "failed_to_fetch", resp.status, att + 1, <<>>))
    ELSE IF att = n - 1
         THEN Raise(Err("Exception", "network_error", 0, 0, <<>>))
         ELSE Retry(Pow2(att))

-----------------------------------------------------------------------------
(* Woollahra: the steps of fetch() between two requests.                   *)

\* faulty variant: the delay is also taken when the request failed
WarmupSleepsOnFailure(resp) ==
    resp.kind = "neterr" \/ resp.status \notin {200, 403}

\* main_page_response.status_code not in [200, 403]; a RequestException is passed
WarmupSleeps(resp) == resp.kind = "response" /\ resp.status \notin {200, 403}

\* data.get("Items") and len(data["Items"]) > 0  ->  data["Items"][0]["Id"];
\* None and the empty string are both <<>>
LocationId(body) ==
    IF body.has_items /\ Len(body.Items) > 0 THEN body.Items[1].Id ELSE <<>>

\* faulty variant: a missing location id is passed on to the second request
AfterSearchNoCheck(resp, address) ==
    IF resp.status # 200
    THEN [ok |-> FALSE, id |-> <<>>,
          err |-> Err("Exception", "unable_to_access_api", resp.status, 0, <<>>)]
    ELSE IF resp.body.fmt # "json"
    THEN [ok |-> FALSE, id |-> <<>>,
          err |-> Err("Exception",
                      IF resp.body.fmt = "denied" THEN "access_denied"
                      ELSE "invalid_json_address_search", 0, 0, <<>>)]
    ELSE [ok |-> TRUE, id |-> LocationId(resp.body), err |-> NoError]

\* lines 123-142: status check, json.loads, location id
AfterSearch(resp, address) ==
    IF resp.status # 200
    THEN [ok |-> FALSE, id |-> <<>>,
          err |-> Err("Exception", "unable_to_access_api", resp.status, 0, <<>>)]
    ELSE IF resp.body.fmt # "json"
    THEN [ok |-> FALSE, id |-> <<>>,
          err |-> Err("Exception",
                      IF resp.body.fmt = "denied" THEN "access_denied"
                      ELSE "invalid_json_address_search", 0, 0, <<>>)]
    ELSE IF LocationId(resp.body) = <<>>
    THEN [ok |-> FALSE, id |-> <<>>,
          err |-> Err("ValueError", "unable_to_find_location_id", 0, 0, address)]
    ELSE [ok |-> TRUE, id |-> LocationId(resp.body), err |-> NoError]

\* lines 152-208: status check, json.loads, envelope check, the loop
AfterCollection(resp, now, acc) ==
    IF resp.status # 200
    THEN [ok |-> FALSE, out |-> acc,
          err |-> Err("Exception", "unable_to_access_waste_api", resp.status, 0, <<>>)]
    ELSE IF resp.body.fmt # "json"
    THEN [ok |-> FALSE, out |-> acc,
          err |-> Err("Exception",
                      IF resp.body.fmt = "denied" THEN "access_denied_waste"
                      ELSE "invalid_json_waste_services", 0, 0, <<>>)]
    ELSE IF ~resp.body.success \/ resp.body.content = <<>>
    THEN [ok |-> FALSE, out |-> acc,
          err |-> Err("RuntimeError", "invalid_response", 0, 0, <<>>)]
    ELSE LET p == ParseServices(FindServices(resp.body.content), now, acc)
         IN  IF p.raised
             THEN [ok |-> FALSE, out |-> p.out,
                   err |-> Err("ParserError", "uncaught", 0, 0, <<>>)]
             ELSE [ok |-> TRUE, out |-> p.out, err |-> NoError]

-----------------------------------------------------------------------------
(* Barking and Dagenham: tables and the loop body.  A date string is       *)
(* <<weekday, day, month, year>>, the words between the spaces; day and    *)
(* year are digit sequences.  A JSON value is [t, s]: t is "str", "null"   *)
(* or "false", s the characters of a string.                               *)

JStr(s) == [t |-> "str", s |-> s]
JNull == [t |-> "null", s |-> <<>>]
JFalse == [t |-> "false", s |-> <<>>]

\* truth value of a JSON value in Python
Truthy(v) == v.t = "str" /\ v.s # <<>>

COLLECTION_MAP ==
    [k \in {"Grey-Household", "Brown-Recycling", "Green-Garden"} |->
        CASE k = "Grey-Household" -> [waste_type |-> "General waste", icon |-> "mdi:trash-can"]
          [] k = "Brown-Recycling" -> [waste_type |-> "Recycling", icon |-> "mdi:recycle"]
          [] OTHER -> [waste_type |-> "Garden waste", icon |-> "mdi:grass"]]

\* COLLECTION_MAP.get(bin_type, {"waste_type": bin_type, "icon": None})
CollectionType(bin_type) ==
    IF bin_type \in DOMAIN COLLECTION_MAP THEN COLLECTION_MAP[bin_type]
    ELSE [waste_type |-> bin_type, icon |-> "None"]

Weekdays == <<"Monday", "Tuesday", "Wednesday", "Thursday", "Friday",
              "Saturday", "Sunday">>
MonthNames == <<"January", "February", "March", "April", "May", "June", "July",
                "August", "September", "October", "November", "December">>
Digits == <<"0", "1", "2", "3", "4", "5", "6", "7", "8", "9">>

IsDigit(c) == \E i \in 1..10 : Digits[i] = c
DigitVal(c) == (CHOOSE i \in 1..10 : Digits[i] = c) - 1

RECURSIVE ToInt(_)
\* int() of a digit sequence
ToInt(ds) ==
    IF ds = <<>> THEN 0
    ELSE 10 * ToInt(SubSeq(ds, 1, Len(ds) - 1)) + DigitVal(ds[Len(ds)])

AllDigits(ds) == \A i \in 1..Len(ds) : IsDigit(ds[i])

\* datetime.strptime(collection_date, "%A %d %B %Y").date()
\* [ok |-> FALSE] is the ValueError of a string that does not match
Strptime(words) ==
    IF /\ Len(words) = 4
       /\ \E i \in 1..7 : Weekdays[i] = words[1]
       /\ Len(words[2]) \in {1, 2} /\ AllDigits(words[2])
       /\ \E i \in 1..12 : MonthNames[i] = words[3]
       /\ Len(words[4]) = 4 /\ AllDigits(words[4])
       /\ ValidDate(ToInt(words[4]),
                    CHOOSE i \in 1..12 : MonthNames[i] = words[3],
                    ToInt(words[2]))
    THEN [ok |-> TRUE,
          date |-> [y |-> ToInt(words[4]),
                    m |-> CHOOSE i \in 1..12 : MonthNames[i] = words[3],
                    d |-> ToInt(words[2])]]
    ELSE [ok |-> FALSE, date |-> NoDate]

\* faulty variant: the future collections come first
DateListFutureFirst(res) ==
    res.futurecollections
        \o (IF Truthy(res.nextcollection) THEN <<res.nextcollection.s>> ELSE <<>>)

\* ([result["nextcollection"]] if result["nextcollection"] else [])
\*     + result["futurecollections"]
DateList(res) ==
    (IF Truthy(res.nextcollection) THEN <<res.nextcollection.s>> ELSE <<>>)
        \o res.futurecollections

RECURSIVE AppendDates(_, _, _)
\* the inner loop: entries.append(Collection(...)) per date, in order;
\* stops at the first date string that does not parse
AppendDates(dates, ctype, acc) ==
    IF dates = <<>> THEN [ok |-> TRUE, out |-> acc]
    ELSE LET d == Strptime(dates[1])
         IN  IF ~d.ok THEN [ok |-> FALSE, out |-> acc]
             ELSE AppendDates(Tail(dates), ctype,
                              Append(acc, Collection(d.date, ctype.waste_type,
                                                     ctype.icon)))

-----------------------------------------------------------------------------
(* The environment: what the upstream servers and the clock may answer.    *)

RECURSIVE SeqsUpTo(_, _)
\* the sequences over S of length at most n
SeqsUpTo(S, n) ==
    IF n = 0 THEN {<<>>}
    ELSE LET shorter == SeqsUpTo(S, n - 1)
         IN  shorter \cup {Append(q, x) : q \in shorter, x \in S}

Days == {[y |-> 2025, m |-> 12, d |-> 31], [y |-> 2026, m |-> 1, d |-> 1]}

RawAddresses ==
    { <<" ","1","3"," ","P","a","d","d","i","n","g","t","o","n"," ","S","t"," ">>,
      <<"2","2"," ","O","x","f","o","r","d"," ","S","t">> }

Id7 == <<"7">>
Id42 == <<"4","2">>

Statuses == {200, 403, 500}

FullDate == <<Word, Num(15), Num(3), Num(2025)>>
OtherFullDate == <<Num(2), Num(13), Num(2026)>>
NoYearDate == <<Num(15), Month(3)>>
Unparseable == <<Word, Word, Word>>
ImpossibleDate == <<Num(31), Num(2), Num(2025)>>

Block(has_h3, h3, has_next, next) ==
    [cls |-> "waste-services-result", has_h3 |-> has_h3, h3 |-> h3,
     has_next |-> has_next, next |-> next]

OtherNode == [cls |-> "other", has_h3 |-> TRUE, h3 |-> Recycling,
              has_next |-> TRUE, next |-> FullDate]

Nodes ==
    { OtherNode,
      Block(FALSE, <<>>, TRUE, FullDate),
      Block(TRUE, Recycling, FALSE, <<>>),
      Block(TRUE, Recycling, TRUE, Unparseable),
      Block(TRUE, <<" ","G","e","n","e","r","a","l"," ","W","a","s","t","e"," ">>,
            TRUE, FullDate),
      Block(TRUE, GreenWaste, TRUE, NoYearDate),
      Block(TRUE, <<"S","p","r","i","n","g"," ","C","l","e","a","n"," ","U","p",
                    " ","S","e","r","v","i","c","e">>, TRUE, OtherFullDate),
      Block(TRUE, <<"S","U","M","M","E","R"," ","C","L","E","A","N","-","U","P">>,
            TRUE, FullDate),
      Block(TRUE, <<"W","i","n","t","e","r"," ","S","p","r","i","n","g"," ",
                    "c","l","e","a","n">>, TRUE, FullDate),
      Block(TRUE, <<"w","i","n","t","e","r"," ","c","l","e","a","n","u","p">>,
            TRUE, FullDate),
      Block(TRUE, <<"S","p","r","i","n","g"," ","G","a","r","d","e","n">>,
            TRUE, FullDate),
      Block(TRUE, <<"S","t","r","e","e","t"," ","C","l","e","a","n","i","n","g">>,
            TRUE, ImpossibleDate) }

SearchBody(has_items, items) ==
    [fmt |-> "json", has_items |-> has_items, Items |-> items,
     success |-> FALSE, content |-> <<>>, results |-> <<>>]

ScheduleBody(success, content) ==
    [fmt |-> "json", has_items |-> FALSE, Items |-> <<>>,
     success |-> success, content |-> content, results |-> <<>>]

TextBody(fmt) == [EmptyBody EXCEPT !.fmt = fmt]

SearchBodies ==
    { TextBody("denied"), TextBody("garbage"),
      SearchBody(FALSE, <<>>), SearchBody(TRUE, <<>>),
      SearchBody(TRUE, <<[Id |-> <<>>], [Id |-> Id7]>>),
      SearchBody(TRUE, <<[Id |-> Id42], [Id |-> Id7]>>) }

ScheduleBodies ==
    { TextBody("denied"), TextBody("garbage"),
      ScheduleBody(FALSE, <<OtherNode>>) }
    \cup {ScheduleBody(TRUE, c) : c \in SeqsUpTo(Nodes, MaxBlocks)}

WarmupResponses == {NetErr} \cup {Resp(st, EmptyBody) : st \in Statuses}

FailedResponses == {NetErr} \cup {Resp(st, EmptyBody) : st \in Statuses \ {200}}
SearchResponses == FailedResponses \cup {Resp(200, b) : b \in SearchBodies}
ScheduleResponses == FailedResponses \cup {Resp(200, b) : b \in ScheduleBodies}
DirectResponses == FailedResponses \cup {Resp(200, EmptyBody)}

\* what a request of the retry helper may meet, by the endpoint it asks
HelperResponses(stg) ==
    CASE stg = "search" -> SearchResponses
      [] stg = "collection" -> ScheduleResponses
      [] OTHER -> DirectResponses

-----------------------------------------------------------------------------
(* Construction.                                                           *)

NoOutcome == [result |-> <<>>, error |-> NoError, log |-> <<>>, today |-> NoDate,
              self |-> [cls |-> "", address |-> <<>>, uprn |-> <<>>]]

InitCommon ==
    /\ pc = "idle"
    /\ stage = "none"
    /\ today = NoDate
    /\ main_page_response = NoResponse
    /\ attempt = 0
    /\ max_retries = 0
    /\ resps = <<>>
    /\ r = NoResponse
    /\ location_id = <<>>
    /\ data = <<>>
    /\ idx = 1
    /\ entries = <<>>
    /\ result = <<>>
    /\ error = NoError
    /\ log = <<>>
    /\ calls = 0
    /\ script = <<>>
    /\ tape = <<>>
    /\ prev = NoOutcome

\* woollahra Source.__init__: self.address = address.strip()
NewWoollahra(raw) == [cls |-> "woollahra", address |-> Strip(raw), uprn |-> <<>>]

Init ==
    /\ self \in {NewWoollahra(raw) : raw \in RawAddresses}
    /\ recording = FALSE
    /\ InitCommon

-----------------------------------------------------------------------------
(* Replay: when the responses are taped, the n-th request of a second call *)
(* meets the response the n-th request of the first call met.              *)

Replays(resp) ==
    IF calls < 2 THEN TRUE
    ELSE IF Len(script) >= Len(tape) THEN TRUE
    ELSE resp = tape[Len(script) + 1]

Taped(resp) == IF recording THEN Append(script, resp) ELSE script

-----------------------------------------------------------------------------
(* Woollahra: the calls.                                                   *)

\* faulty variant: the list of a previous call is kept
StaleEntries(old) == old

\* entries = []
FreshEntries(old) == <<>>

\* the frame of a call of _make_request_with_retry(session, url, headers)
EnterHelper(stg, n) ==
    /\ stage' = stg
    /\ max_retries' = n
    /\ attempt' = 0
    /\ resps' = <<>>
    /\ pc' = "helper"

HelperUrl ==
    CASE stage = "search" -> SearchUrl(self.address)
      [] stage = "collection" -> CollectionUrl(location_id)
      [] OTHER -> DirectUrl

\* a caller invokes fetch() on a fresh instance
CallFetch ==
    /\ pc = "idle"
    /\ calls' = calls + 1
    /\ pc' = IF self.cls = "woollahra" THEN "warmup" ELSE "lbbd_get"
    /\ location_id' = <<>>
    /\ UNCHANGED <<main_page_response, self, stage, today, attempt, max_retries, resps, r, data, idx,
                   entries, result, error, log, recording, script, tape, prev>>

\* a caller invokes _make_request_with_retry directly with max_retries = n
CallHelper(n) ==
    /\ pc = "idle"
    /\ self.cls = "woollahra"
    /\ ~recording
    /\ EnterHelper("direct", n)
    /\ UNCHANGED <<main_page_response, self, today, r, location_id, data, idx, entries, result,
                   error, log, calls, recording, script, tape, prev>>

\* lines 94-120: the warm-up request, then the call of the helper for the search
WarmUp(resp) ==
    /\ pc = "warmup"
    /\ Replays(resp)
    /\ script' = Taped(resp)
    /\ log' = log \o <<WarmupUrl>>
                  \o (IF WarmupSleeps(resp) THEN <<Sleep(WarmupSleep)>> ELSE <<>>)
    /\ main_page_response' = resp
    /\ EnterHelper("search", DefaultMaxRetries)
    /\ UNCHANGED <<self, today, r, location_id, data, idx, entries, result,
                   error, calls, recording, tape, prev>>

\* lines 64-79: one pass of the retry loop
Attempt(resp) ==
    /\ pc = "helper"
    /\ attempt < max_retries
    /\ Replays(resp)
    /\ script' = Taped(resp)
    /\ resps' = Append(resps, resp)
    /\ main_page_response' = NoResponse
    /\ LET step == HelperStep(resp, attempt, max_retries)
       IN  /\ log' = log \o <<HelperUrl>>
                         \o (IF step.act = "retry" THEN <<Sleep(step.sleep)>> ELSE <<>>)
           /\ pc' = CASE step.act = "return" -> "returned"
                      [] step.act = "retry" -> "helper"
                      [] OTHER -> "failed"
           /\ r' = IF step.act = "return" THEN resp ELSE r
           /\ error' = step.err
           /\ attempt' = IF step.act = "retry" THEN attempt + 1 ELSE attempt
    /\ UNCHANGED <<self, stage, today, max_retries, location_id, data, idx,
                   entries, result, calls, recording, tape, prev>>

\* lines 81-83: the loop ended without a return or a raise
Exhausted ==
    /\ pc = "helper"
    /\ attempt >= max_retries
    /\ pc' = "failed"
    /\ error' = Err("RequestException", "max_retries_exceeded", 0, 0, <<>>)
    /\ UNCHANGED <<main_page_response, self, stage, today, attempt, max_retries, resps, r,
                   location_id, data, idx, entries, result, log, calls,
                   recording, script, tape, prev>>

\* lines 122-150: the search response is read, then the helper is called again
SearchDone ==
    /\ pc = "returned"
    /\ stage = "search"
    /\ LET a == AfterSearch(r, self.address)
       IN  IF a.ok
           THEN /\ location_id' = a.id
                /\ log' = Append(log, Sleep(PolitenessSleep))
                /\ EnterHelper("collection", DefaultMaxRetries)
                /\ error' = error
           ELSE /\ pc' = "failed"
                /\ error' = a.err
                /\ UNCHANGED <<location_id, log, stage, max_retries, attempt, resps>>
    /\ UNCHANGED <<main_page_response, self, today, r, data, idx, entries, result, calls,
                   recording, script, tape, prev>>

\* lines 152-208: the schedule response is read and the entries are returned
CollectionDone(now) ==
    /\ pc = "returned"
    /\ stage = "collection"
    /\ today' = now
    /\ LET a == AfterCollection(r, now, FreshEntries(entries))
       IN  /\ entries' = a.out
           /\ error' = a.err
           /\ pc' = IF a.ok THEN "done" ELSE "failed"
           /\ result' = IF a.ok THEN a.out ELSE result
    /\ attempt' = 0
    /\ resps' = <<>>
    /\ UNCHANGED <<main_page_response, self, stage, max_retries, r, location_id, data, idx, log,
                   calls, recording, script, tape, prev>>

Next ==
    \/ CallFetch
    \/ \E n \in 0..MaxN : CallHelper(n)
    \/ pc = "warmup" /\ \E resp \in WarmupResponses : WarmUp(resp)
    \/ pc = "helper" /\ \E resp \in HelperResponses(stage) : Attempt(resp)
    \/ Exhausted
    \/ SearchDone
    \/ \E now \in Days : CollectionDone(now)

Spec == Init /\ [][Next]_vars

-----------------------------------------------------------------------------
(* Barking and Dagenham: construction, inputs and the call.                *)

RECURSIVE Decimal(_)
\* str() of a non-negative integer
Decimal(n) ==
    IF n < 10 THEN <<Digits[n + 1]>>
    ELSE Append(Decimal(n \div 10), Digits[(n % 10) + 1])

\* lbbd Source.__init__: self._uprn = str(uprn); uprn is [isint, n, s]
NewLbbd(uprn) ==
    [cls |-> "lbbd", address |-> <<>>,
     uprn |-> IF uprn.isint THEN Decimal(uprn.n) ELSE uprn.s]

RawUprns == { [isint |-> TRUE, n |-> 1033, s |-> <<>>],
              [isint |-> FALSE, n |-> 0, s |-> <<"4","0","6","2","9">>] }

Jan01 == <<"Monday", <<"0","1">>, "January", <<"2","0","2","4">>>>
Jan08 == <<"Monday", <<"0","8">>, "January", <<"2","0","2","4">>>>
Feb29 == <<"Thursday", <<"2","9">>, "February", <<"2","0","2","4">>>>
BadDay == <<"Mon", <<"0","1">>, "January", <<"2","0","2","4">>>>

BinResult(bin_type, nextcollection, futurecollections) ==
    [bin_type |-> bin_type, nextcollection |-> nextcollection,
     futurecollections |-> futurecollections]

BinResults ==
    { BinResult("Grey-Household", JStr(Jan01), <<Jan08>>),
      BinResult("Brown-Recycling", JStr(<<>>), <<Jan08, Feb29>>),
      BinResult("Green-Garden", JFalse, <<>>),
      BinResult("Green-Garden", JStr(Feb29), <<Jan01>>),
      BinResult("Purple-Unknown", JStr(Jan01), <<>>),
      BinResult("Purple-Unknown", JNull, <<Jan08>>),
      BinResult("Grey-Household", JStr(BadDay), <<Jan08>>),
      BinResult("Brown-Recycling", JStr(Jan01), <<BadDay>>) }

ResultsBody(results) == [EmptyBody EXCEPT !.results = results]

LbbdResponses ==
    {NetErr, Resp(200, TextBody("garbage")), Resp(500, TextBody("garbage")),
     Resp(500, ResultsBody(<<BinResult("Grey-Household", JStr(Jan01), <<>>)>>))}
    \cup {Resp(200, ResultsBody(rs)) : rs \in SeqsUpTo(BinResults, MaxResults)}

InitLbbd ==
    /\ self \in {NewLbbd(u) : u \in RawUprns}
    /\ recording = FALSE
    /\ InitCommon

\* lines 38-43: the request, r.json(), entries = []
LbbdGet(resp) ==
    /\ pc = "lbbd_get"
    /\ Replays(resp)
    /\ script' = Taped(resp)
    /\ log' = Append(log, Get("rest_bin", self.uprn))
    /\ IF resp.kind = "neterr"
       THEN /\ pc' = "failed"
            /\ error' = Err("RequestException", "network", 0, 0, <<>>)
            /\ UNCHANGED <<data, idx, entries>>
       ELSE IF resp.body.fmt # "json"
       THEN /\ pc' = "failed"
            /\ error' = Err("JSONDecodeError", "not_json", 0, 0, <<>>)
            /\ UNCHANGED <<data, idx, entries>>
       ELSE /\ pc' = "lbbd_loop"
            /\ data' = resp.body.results
            /\ idx' = 1
            /\ entries' = FreshEntries(entries)
            /\ error' = error
    /\ UNCHANGED <<main_page_response, self, stage, today, attempt, max_retries, resps, r,
                   location_id, result, calls, recording, tape, prev>>

\* lines 45-62: one pass of the outer loop
LbbdResult ==
    /\ pc = "lbbd_loop"
    /\ idx <= Len(data)
    /\ LET a == AppendDates(DateList(data[idx]),
                            CollectionType(data[idx].bin_type), entries)
       IN  /\ entries' = a.out
           /\ idx' = IF a.ok THEN idx + 1 ELSE idx
           /\ pc' = IF a.ok THEN "lbbd_loop" ELSE "failed"
           /\ error' = IF a.ok THEN error
                       ELSE Err("ValueError", "time_data_does_not_match", 0, 0, <<>>)
    /\ UNCHANGED <<main_page_response, self, stage, today, attempt, max_retries, resps, r,
                   location_id, data, result, log, calls, recording, script,
                   tape, prev>>

\* line 64: return entries
LbbdReturn ==
    /\ pc = "lbbd_loop"
    /\ idx > Len(data)
    /\ pc' = "done"
    /\ result' = entries
    /\ UNCHANGED <<main_page_response, self, stage, today, attempt, max_retries, resps, r,
                   location_id, data, idx, entries, error, log, calls,
                   recording, script, tape, prev>>

NextLbbd ==
    \/ CallFetch
    \/ pc = "lbbd_get" /\ \E resp \in LbbdResponses : LbbdGet(resp)
    \/ LbbdResult
    \/ LbbdReturn

SpecLbbd == InitLbbd /\ [][NextLbbd]_vars

-----------------------------------------------------------------------------
(* Two calls of fetch() on one instance, the second meeting the responses  *)
(* of the first.                                                           *)

InitTwice ==
    /\ self \in {NewWoollahra(raw) : raw \in RawAddresses}
                \cup {NewLbbd(u) : u \in RawUprns}
    /\ recording = TRUE
    /\ InitCommon

\* the caller invokes fetch() again after the first call returned or raised
FetchAgain ==
    /\ pc \in {"done", "failed"}
    /\ calls = 1
    /\ calls' = 2
    /\ prev' = [result |-> result, error |-> error, log |-> log, today |-> today,
                 self |-> self]
    /\ tape' = script
    /\ script' = <<>>
    /\ result' = <<>>
    /\ error' = NoError
    /\ log' = <<>>
    /\ location_id' = <<>>
    /\ pc' = IF self.cls = "woollahra" THEN "warmup" ELSE "lbbd_get"
    /\ UNCHANGED <<main_page_response, self, stage, today, attempt, max_retries, resps, r, data,
                   idx, entries, recording>>

TwiceContents ==
    { <<OtherNode>>,
      <<Block(TRUE, GreenWaste, TRUE, NoYearDate)>>,
      <<Block(TRUE, Recycling, TRUE, Unparseable),
        Block(TRUE, GreenWaste, TRUE, FullDate)>> }

TwiceSearchResponses ==
    FailedResponses
    \cup {Resp(200, b) : b \in {TextBody("denied"), SearchBody(TRUE, <<>>),
                                SearchBody(TRUE, <<[Id |-> Id42]>>)}}

TwiceScheduleResponses ==
    FailedResponses
    \cup {Resp(200, b) : b \in {TextBody("garbage"), ScheduleBody(FALSE, <<OtherNode>>)}}
    \cup {Resp(200, ScheduleBody(TRUE, c)) : c \in TwiceContents}

TwiceLbbdResponses ==
    {NetErr, Resp(200, TextBody("garbage"))}
    \cup {Resp(200, ResultsBody(rs)) : rs \in SeqsUpTo(BinResults, 1)}

NextTwice ==
    \/ CallFetch
    \/ FetchAgain
    \/ pc = "warmup" /\ \E resp \in WarmupResponses : WarmUp(resp)
    \/ pc = "helper" /\ stage = "search"
         /\ \E resp \in TwiceSearchResponses : Attempt(resp)
    \/ pc = "helper" /\ stage = "collection"
         /\ \E resp \in TwiceScheduleResponses : Attempt(resp)
    \/ SearchDone
    \/ \E now \in Days : CollectionDone(now)
    \/ pc = "lbbd_get" /\ \E resp \in TwiceLbbdResponses : LbbdGet(resp)
    \/ LbbdResult
    \/ LbbdReturn

SpecTwice == InitTwice /\ [][NextTwice]_vars

-----------------------------------------------------------------------------
(* Properties of _make_request_with_retry.                                 *)

Is200(resp) == resp.kind = "response" /\ resp.status = 200
Is403(resp) == resp.kind = "response" /\ resp.status = 403
IsNetErr(resp) == resp.kind = "neterr"

HelperErrors == {"failed_to_fetch", "network_error", "max_retries_exceeded"}

EpOf(stg) ==
    CASE stg = "search" -> "address_search"
      [] stg = "collection" -> "collection"
      [] OTHER -> "direct"

\* the requests and sleeps of the running (or last) call of the helper
HelperTrace ==
    LET first == {i \in 1..Len(log) : IsGet(log[i]) /\ log[i].ep = EpOf(stage)}
    IN  IF first = {} THEN <<>>
        ELSE SubSeq(log, CHOOSE i \in first : \A j \in first : i <= j, Len(log))

Gets(trace) == Len(SelectSeq(trace, IsGet))
Sleeps(trace) == Len(SelectSeq(trace, IsSleep))

\* k+1 requests of url with sleeps of 2^0 .. 2^(k-1) seconds between them
BackoffTrace(k, url) ==
    [i \in 1..(2 * k + 1) |-> IF i % 2 = 1 THEN url ELSE Sleep(2 ^ ((i \div 2) - 1))]

\* C1: with max_retries = N >= 1, when the first k < N responses are 403 and
\* the next one is 200, the helper has made exactly k+1 requests with sleeps
\* of 1, 2, .., 2^(k-1) seconds between them, none before the first and none
\* after the last, and has returned that 200 response.
C1_BackoffThenReturn ==
    \A k \in 0..(max_retries - 1) :
        ( /\ Len(resps) >= k + 1
          /\ \A i \in 1..k : Is403(resps[i])
          /\ Is200(resps[k + 1]) )
        => /\ pc # "helper"
           /\ Len(resps) = k + 1
           /\ HelperTrace = BackoffTrace(k, HelperUrl)
           /\ r = resps[k + 1]
           /\ error.msg \notin HelperErrors

C1_Witness ==
    /\ stage = "direct" /\ max_retries = 3 /\ pc = "returned"
    /\ Len(resps) = 3 /\ Is403(resps[1]) /\ Is403(resps[2]) /\ Is200(resps[3])
    /\ log = <<DirectUrl, Sleep(1), DirectUrl, Sleep(2), DirectUrl>>

\* the last response ends the call with a status error: any status other than
\* 200 and 403, or a 403 on the final attempt
StatusFailure ==
    /\ max_retries >= 1
    /\ resps # <<>>
    /\ LET last == resps[Len(resps)]
       IN  /\ last.kind = "response"
           /\ \/ last.status \notin {200, 403}
              \/ last.status = 403 /\ Len(resps) = max_retries

\* C6: a response whose status is neither 200 nor 403, on any attempt, or a
\* 403 on the final attempt, makes the helper raise an error carrying that
\* status and the 1-based attempt number; no sleep and no request follows it
\* and the network-error handler does not turn it into a retry.
C6_StatusFailsImmediately ==
    StatusFailure
    => /\ pc = "failed"
       /\ error = Err("Exception", "failed_to_fetch",
                      resps[Len(resps)].status, Len(resps), <<>>)
       /\ attempt = Len(resps) - 1
       /\ Gets(HelperTrace) = Len(resps)
       /\ HelperTrace[Len(HelperTrace)] = HelperUrl

C6_Witness ==
    /\ pc = "failed" /\ stage = "collection"
    /\ Len(resps) = 2 /\ IsNetErr(resps[1])
    /\ resps[2].kind = "response" /\ resps[2].status = 500
    /\ error.attempt = 2 /\ error.status = 500

\* C7: a network exception on attempt i (from 0) with i < N-1 is followed by
\* a sleep of 2^i seconds and then by attempt i+1; on attempt N-1 it makes the
\* helper raise the wrapped network error without a sleep.  The sleep depends
\* on the attempt index alone, whatever came before.
C7_NetworkErrorBackoff ==
    max_retries >= 1 =>
    \A i \in 0..(Len(resps) - 1) :
        IsNetErr(resps[i + 1]) =>
            IF i < max_retries - 1
            THEN /\ Len(HelperTrace) >= 2 * i + 2
                 /\ HelperTrace[2 * i + 1] = HelperUrl
                 /\ HelperTrace[2 * i + 2] = Sleep(2 ^ i)
                 /\ IF i + 1 = Len(resps)
                    THEN pc = "helper" /\ attempt = i + 1
                         /\ Len(HelperTrace) = 2 * i + 2
                    ELSE HelperTrace[2 * i + 3] = HelperUrl
            ELSE /\ pc = "failed"
                 /\ error = Err("Exception", "network_error", 0, 0, <<>>)
                 /\ Len(resps) = max_retries
                 /\ Len(HelperTrace) = 2 * i + 1
                 /\ HelperTrace[2 * i + 1] = HelperUrl

C7_Witness ==
    /\ pc = "failed" /\ max_retries = 3 /\ error.msg = "network_error"
    /\ Len(resps) = 3 /\ Is403(resps[1]) /\ IsNetErr(resps[2]) /\ IsNetErr(resps[3])
    /\ Sleeps(HelperTrace) = 2

\* the running call of the helper has ended
HelperEnded == pc = "returned" \/ (pc = "failed" /\ error.msg \in HelperErrors)

\* C10: with max_retries = N >= 1 the helper ends after 1..N requests and at
\* most N-1 sleeps, by returning a 200 response or by raising inside the loop
\* (never by the fallback after the loop); so fetch() never takes its two
\* status_code != 200 branches and issues at most 1 + 2N requests.
C10_HelperOutcome ==
    /\ max_retries >= 1 =>
        /\ error.msg # "max_retries_exceeded"
        /\ Len(resps) <= max_retries
        /\ pc = "helper" => attempt < max_retries /\ attempt = Len(resps)
        /\ HelperEnded =>
            /\ Gets(HelperTrace) >= 1 /\ Gets(HelperTrace) <= max_retries
            /\ Gets(HelperTrace) = Len(resps)
            /\ Sleeps(HelperTrace) <= max_retries - 1
        /\ pc = "returned" => Is200(r)
    /\ error.msg \notin {"unable_to_access_api", "unable_to_access_waste_api"}
    /\ stage \in {"search", "collection"} =>
        /\ max_retries = DefaultMaxRetries
        /\ Gets(log) <= 1 + 2 * max_retries

C10_Witness ==
    /\ stage = "collection" /\ pc = "returned"
    /\ Gets(log) = 7 /\ Sleeps(HelperTrace) = 2

-----------------------------------------------------------------------------
(* Properties of the woollahra fetch().                                    *)

InFetch == stage \in {"search", "collection"}

HasCollectionGet == \E i \in 1..Len(log) : IsGet(log[i]) /\ log[i].ep = "collection"

\* the search response resolves the address: 200, JSON, a non-empty Items
\* whose first Id is truthy
Resolves(resp) ==
    /\ Is200(resp)
    /\ resp.body.fmt = "json"
    /\ resp.body.has_items
    /\ resp.body.Items # <<>>
    /\ resp.body.Items[1].Id # <<>>

\* the search response is JSON that does not resolve the address
Unresolved(resp) == Is200(resp) /\ resp.body.fmt = "json" /\ ~Resolves(resp)

AddressError(address) ==
    Err("ValueError", "unable_to_find_location_id", 0, 0, address)

\* the helper call for the schedule has just been entered: r is still the
\* search response
AboutToAskSchedule == pc = "helper" /\ stage = "collection" /\ resps = <<>>

C2_State ==
    /\ (stage = "collection" \/ HasCollectionGet) => location_id # <<>>
    /\ AboutToAskSchedule =>
        /\ Resolves(r)
        /\ location_id = r.body.Items[1].Id
        /\ ~HasCollectionGet
        /\ log[Len(log)] = Sleep(PolitenessSleep)
    /\ error.msg = "unable_to_find_location_id" =>
        /\ pc = "failed"
        /\ error = AddressError(self.address)
        /\ ~HasCollectionGet
        /\ log[Len(log)] = SearchUrl(self.address)

C2_Step ==
    (pc = "returned" /\ stage = "search" /\ Unresolved(r))
    => /\ pc' = "failed"
       /\ error' = AddressError(self.address)
       /\ log' = log

\* C2: the collection endpoint is requested only after the search returned a
\* 200 response whose JSON has a non-empty Items with a truthy first Id; when
\* Items is missing or empty or the first Id is falsy, fetch() fails with the
\* address-resolution error naming the stored address, and neither the
\* 1-second delay nor a request to the collection endpoint happens.
C2_CollectionOnlyAfterResolution == [](C2_State) /\ [][C2_Step]_vars

C2_Witness ==
    /\ pc = "failed" /\ error = AddressError(self.address)
    /\ r.body.has_items /\ r.body.Items # <<>> /\ r.body.Items[1].Id = <<>>
    /\ Len(resps) = 2

\* the state right after the warm-up step
AfterWarmup == pc = "helper" /\ stage = "search" /\ resps = <<>>

WarmupOrder ==
    InFetch =>
        /\ log # <<>>
        /\ log[1] = WarmupUrl
        /\ \A i \in 2..Len(log) : log[i].ep # "main_page"
        /\ \A i \in 2..Len(log) :
               (IsGet(log[i]) /\ \A j \in 2..(i - 1) : ~IsGet(log[j]))
                   => log[i].ep = "address_search"
        /\ pc = "failed" =>
               \E i \in 2..Len(log) : IsGet(log[i]) /\ log[i].ep = "address_search"

\* C9 as stated: the 2-second sleep is taken exactly when the warm-up returned
\* a response with a status other than 200.
C9_SleepUnlessStatus200 ==
    /\ WarmupOrder
    /\ AfterWarmup =>
        log = <<WarmupUrl>>
              \o (IF main_page_response.kind = "response"
                     /\ main_page_response.status # 200
                  THEN <<Sleep(WarmupSleep)>> ELSE <<>>)

\* C9 (amended): the warm-up request is issued exactly once, before every API
\* request, and no outcome of it aborts the fetch: the address search is
\* requested next.  Its only effect is a 2-second sleep, taken exactly when it
\* returned a response whose status is neither 200 nor 403; there is no sleep
\* on 200, on 403 or on a network failure.
C9_SleepUnlessStatus200Or403 ==
    /\ WarmupOrder
    /\ AfterWarmup =>
        /\ main_page_response.kind \in {"response", "neterr"}
        /\ log = <<WarmupUrl>>
                 \o (IF main_page_response.kind = "response"
                        /\ main_page_response.status \notin {200, 403}
                     THEN <<Sleep(WarmupSleep)>> ELSE <<>>)

C9_Witness ==
    /\ AfterWarmup
    /\ main_page_response.kind = "response" /\ main_page_response.status = 403
    /\ log = <<WarmupUrl>>

\* the schedule response has been read by fetch()
ScheduleRead == stage = "collection" /\ today # NoDate /\ pc \in {"done", "failed"}

\* the envelope of the schedule response is accepted
Accepted(resp) ==
    /\ Is200(resp) /\ resp.body.fmt = "json"
    /\ resp.body.success /\ resp.body.content # <<>>

\* positions of the result blocks that have a heading, a next-service element
\* and a next-service text that is a date
GoodBlocks(content, now) ==
    {i \in 1..Len(content) :
        /\ content[i].cls = "waste-services-result"
        /\ content[i].has_h3
        /\ content[i].has_next
        /\ ParseDate(content[i].next, now).ok}

\* the j-th smallest element of a set of numbers
Nth(S, j) == CHOOSE i \in S : Cardinality({x \in S : x <= i}) = j

\* C4: once the envelope is accepted no block makes fetch() fail: a block
\* without heading, without next-service element or with a next-service text
\* that is no date is dropped without an error and every other block is
\* emitted, one Collection per remaining block, in document order.
C4_BadBlocksDropped ==
    (ScheduleRead /\ Accepted(r)) =>
        LET good == GoodBlocks(r.body.content, today)
        IN  /\ pc = "done"
            /\ error = NoError
            /\ Len(result) = Cardinality(good)
            /\ \A j \in 1..Len(result) :
                 LET b == r.body.content[Nth(good, j)]
                 IN  /\ result[j].date = ParseDate(b.next, today).date
                     /\ result[j].t = Normalize(Strip(b.h3))

C4_Witness ==
    /\ pc = "done" /\ Len(r.body.content) = 2
    /\ r.body.content[1] = Block(TRUE, Recycling, TRUE, Unparseable)
    /\ r.body.content[2].has_h3 /\ r.body.content[2].next = NoYearDate
    /\ Len(result) = 1 /\ result[1].t = GreenWaste

\* the first of spring, summer, winter that the lower-cased label contains
FirstSeason(low) ==
    CASE Contains(low, kwSpring) -> SpringCleanUp
      [] Contains(low, kwSummer) -> SummerCleanUp
      [] OTHER -> WinterCleanUp

ExpectedType(label) ==
    LET low == Lower(label)
    IN  IF Contains(low, kwClean)
           /\ (Contains(low, kwSpring) \/ Contains(low, kwSummer)
               \/ Contains(low, kwWinter))
        THEN FirstSeason(low)
        ELSE label

\* C8: for every emitted block, the waste type is "<Season> Clean-Up" for the
\* first of spring, summer, winter that the lower-cased label contains when it
\* also contains "clean", and the label unchanged otherwise; the icon is the
\* table's entry for that waste type, "mdi:trash-can" when there is none, so
\* a normalized clean-up label has the icon "mdi:delete-sweep".
C8_NormalizedTypeAndIcon ==
    (ScheduleRead /\ pc = "done") =>
        LET good == GoodBlocks(r.body.content, today)
        IN  /\ Len(result) = Cardinality(good)
            /\ \A j \in 1..Len(result) :
                 LET label == Strip(r.body.content[Nth(good, j)].h3)
                     t == result[j].t
                 IN  /\ t = ExpectedType(label)
                     /\ result[j].icon =
                          (IF t \in DOMAIN ICON_MAP THEN ICON_MAP[t]
                           ELSE "mdi:trash-can")
                     /\ t \in {SpringCleanUp, SummerCleanUp, WinterCleanUp}
                          => result[j].icon = "mdi:delete-sweep"

C8_Witness ==
    /\ pc = "done" /\ Len(result) = 2
    /\ Lower(Strip(r.body.content[1].h3)) =
         <<"w","i","n","t","e","r"," ","s","p","r","i","n","g"," ","c","l","e","a","n">>
    /\ result[1].t = SpringCleanUp /\ result[1].icon = "mdi:delete-sweep"
    /\ result[2].t = <<"S","p","r","i","n","g"," ","G","a","r","d","e","n">>
    /\ result[2].icon = "mdi:trash-can"

-----------------------------------------------------------------------------
(* Properties of the lbbd fetch().                                         *)

\* the date strings of one entry, next collection first
EntryDates(res) ==
    IF res.nextcollection.t = "str" /\ res.nextcollection.s # <<>>
    THEN <<res.nextcollection.s>> \o res.futurecollections
    ELSE res.futurecollections

AllMatch(results) ==
    \A i \in 1..Len(results) :
        \A j \in 1..Len(EntryDates(results[i])) : Strptime(EntryDates(results[i])[j]).ok

ExpectedWasteType(bin_type) ==
    CASE bin_type = "Grey-Household" -> "General waste"
      [] bin_type = "Brown-Recycling" -> "Recycling"
      [] bin_type = "Green-Garden" -> "Garden waste"
      [] OTHER -> bin_type

ExpectedIcon(bin_type) ==
    CASE bin_type = "Grey-Household" -> "mdi:trash-can"
      [] bin_type = "Brown-Recycling" -> "mdi:recycle"
      [] bin_type = "Green-Garden" -> "mdi:grass"
      [] OTHER -> "None"

EntryRecords(res) ==
    [j \in 1..Len(EntryDates(res)) |->
        [date |-> Strptime(EntryDates(res)[j]).date,
         t |-> ExpectedWasteType(res.bin_type),
         icon |-> ExpectedIcon(res.bin_type)]]

RECURSIVE Flatten(_)
Flatten(results) ==
    IF results = <<>> THEN <<>>
    ELSE EntryRecords(results[1]) \o Flatten(Tail(results))

RECURSIVE DateCount(_)
DateCount(results) ==
    IF results = <<>> THEN 0
    ELSE (IF Truthy(results[1].nextcollection) THEN 1 ELSE 0)
         + Len(results[1].futurecollections) + DateCount(Tail(results))

\* the loop over the results has ended, by the return or by a date that does
\* not match the format
LoopEnded == pc = "done" \/ error.msg = "time_data_does_not_match"

\* C3: for a JSON body whose date strings all match the format, the output is
\* the concatenation over the entries of results, in order, of one Collection
\* per date of [nextcollection if truthy] + futurecollections, so its length
\* is the sum of (1 if nextcollection is truthy) + len(futurecollections);
\* each record has the table's waste type and icon of its bin_type, or the raw
\* bin_type and no icon when the table has no entry.
C3_FlattenedInOrder ==
    (LoopEnded /\ AllMatch(data)) =>
        /\ pc = "done"
        /\ result = Flatten(data)
        /\ Len(result) = DateCount(data)

C3_Witness ==
    /\ pc = "done" /\ Len(data) = 2
    /\ data[1] = BinResult("Purple-Unknown", JNull, <<Jan08>>)
    /\ data[2] = BinResult("Green-Garden", JStr(Feb29), <<Jan01>>)
    /\ Len(result) = 3 /\ result[1].icon = "None"
    /\ result[2].date = [y |-> 2024, m |-> 2, d |-> 29]

-----------------------------------------------------------------------------
(* Two calls of fetch() that meet the same responses.                      *)

\* the second call has ended and met exactly the responses of the first
SecondCallEnded == calls = 2 /\ pc \in {"done", "failed"} /\ script = tape

SameOutcome ==
    /\ result = prev.result
    /\ error = prev.error
    /\ log = prev.log
    /\ self = prev.self

\* C5 as stated: two calls of fetch() on one instance that receive identical
\* upstream responses return identical sequences or fail with the same error.
C5_SameResponsesSameOutput == SecondCallEnded => SameOutcome

\* C5 (amended): two calls of fetch() on one instance that receive identical
\* upstream responses and parse them on the same calendar day return identical
\* sequences or fail with the same error, after the same requests and sleeps;
\* no call changes the stored identifier or address, and the second call reads
\* nothing the first one left.
C5_SameResponsesSameDaySameOutput ==
    (SecondCallEnded /\ today = prev.today) => SameOutcome

C5_Witness ==
    /\ SecondCallEnded /\ pc = "done" /\ self.cls = "woollahra"
    /\ today = prev.today
    /\ Len(result) = 1 /\ result[1].t = GreenWaste
    /\ r.body.content[1].next = NoYearDate

=============================================================================
